---------------------------- MODULE Spec2Model ----------------------------
(***************************************************************************)
(* Model of player_universe_trx: the PlayerMatcher engine                  *)
(* (matchers/player_matcher.py) and PlayerModel.merge_fangraphs_data       *)
(* (models/player.py).                                                     *)
(*                                                                         *)
(* Python values are modelled as follows.  A str is the sequence of its    *)
(* characters (each character a one-character string), so that split(),    *)
(* startswith() and the suffix pattern are computed and not looked up.     *)
(* None is the distinguished value None below.  A dict is a function       *)
(* whose DOMAIN is the set of keys present.  A list of objects is a        *)
(* sequence; an object's identity is its position in the list that owns    *)
(* it (espn_players for PlayerModel objects, fg_data for the FanGraphs     *)
(* dictionaries), and every other list holds such positions.               *)
(***************************************************************************)
EXTENDS Naturals, Sequences, FiniteSets, TLC

VARIABLES
    espn_players,       \* self.espn_players: the PlayerModel objects
    fg_data,            \* self.fg_data: the FanGraphs dictionaries
    fg_by_last_name,    \* self.fg_by_last_name: last name -> list of fg_data positions
    matched_players,    \* self.matched_players
    ambiguous_matches,  \* self.ambiguous_matches: <<player, candidates>> pairs
    unmatched_players,  \* self.unmatched_players
    matched_fg_ids,     \* self.matched_fg_ids
    pc,                 \* position inside match_players
    todo,               \* the players the four loops of match_players still have to visit
    log,                \* one <<player, match>> entry per _process_match call (its debug line)
    m_player,           \* merge_fangraphs_data: the PlayerModel it is applied to
    m_hist,             \* merge_fangraphs_data: the calls made so far, [before, data, after]
    f_candidates,       \* filter_by_team: argument candidates
    f_team_code,        \* filter_by_team: argument team_code
    f_result,           \* filter_by_team: value returned by the module-level function
    f_method_result,    \* filter_by_team: value returned by PlayerMatcher._filter_by_team
    f_pc,               \* filter_by_team: "call" before the call, "done" after
    n_tokens,           \* extract_last_name: the tokens full_name is written from
    n_full_name,        \* extract_last_name: argument full_name
    n_result,           \* extract_last_name: value returned
    n_pc,               \* extract_last_name: "call" before the call, "done" after
    b_player_data,      \* create_player_models: argument player_data
    b_valid_players,    \* create_player_models: valid_players
    b_skipped_count,    \* create_player_models: skipped_count
    b_next,             \* create_player_models: position of the next record of the loop
    b_pc,               \* create_player_models: "loop" inside the loop, "done" after return
    r_reruns,           \* match_players: the calls made on the matcher after the first one
    r_first             \* match_players: what the first call left, once a further call began

\* the record kept of a call of match_players, before any call
NoRun ==
    [ players |-> <<>>, matched |-> <<>>, ambiguous |-> <<>>, unmatched |-> <<>>,
      claimed |-> {}, log |-> <<>> ]

matcher_vars == <<espn_players, fg_data, fg_by_last_name, matched_players,
                  ambiguous_matches, unmatched_players, matched_fg_ids, pc, todo, log>>
merge_vars == <<m_player, m_hist>>
filter_vars == <<f_candidates, f_team_code, f_result, f_method_result, f_pc>>
name_vars == <<n_tokens, n_full_name, n_result, n_pc>>
builder_vars == <<b_player_data, b_valid_players, b_skipped_count, b_next, b_pc>>
rerun_vars == <<r_reruns, r_first>>
vars == <<matcher_vars, merge_vars, filter_vars, name_vars, builder_vars, rerun_vars>>

---------------------------------------------------------------------------
(* Bounds of the model *)

MaxPlayers == 2
MaxCandidates == 2
MaxMerges == 2
MaxFilterCandidates == 2
MaxNameTokens == 2
MaxRecords == 3

---------------------------------------------------------------------------
(* Python values *)

None == <<"None">>

\* bool(x) of an Optional[str]: None and "" are falsy
Truthy(x) == x # None /\ x # <<>>

\* dict.get(key, default)
get(d, key, default) == IF key \in DOMAIN d THEN d[key] ELSE default

IsSpace(ch) == ch \in {" ", "\t", "\n"}

\* str.split(): the maximal runs of non-whitespace characters, in order;
\* start is the position where the run being read began, 0 between runs
RECURSIVE SplitFrom(_, _, _)
SplitFrom(s, i, start) ==
    IF i > Len(s)
    THEN IF start = 0 THEN <<>> ELSE <<SubSeq(s, start, Len(s))>>
    ELSE IF IsSpace(s[i])
         THEN IF start = 0
              THEN SplitFrom(s, i + 1, 0)
              ELSE <<SubSeq(s, start, i - 1)>> \o SplitFrom(s, i + 1, 0)
         ELSE SplitFrom(s, i + 1, IF start = 0 THEN i ELSE start)

split(s) == SplitFrom(s, 1, 0)

\* str.startswith(prefix)
startswith(s, prefix) ==
    /\ Len(prefix) <= Len(s)
    /\ SubSeq(s, 1, Len(prefix)) = prefix

UpperCase == <<"A","B","C","D","E","F","G","H","I","J","K","L","M",
               "N","O","P","Q","R","S","T","U","V","W","X","Y","Z">>
LowerCase == <<"a","b","c","d","e","f","g","h","i","j","k","l","m",
               "n","o","p","q","r","s","t","u","v","w","x","y","z">>

\* the case folding re.IGNORECASE applies to one character
LowerChar(ch) ==
    IF \E k \in 1..Len(UpperCase) : UpperCase[k] = ch
    THEN LowerCase[CHOOSE k \in 1..Len(UpperCase) : UpperCase[k] = ch]
    ELSE ch

Lower(s) == [k \in 1..Len(s) |-> LowerChar(s[k])]

\* the suffix pattern matched without re.IGNORECASE
suffix_pattern_case_sensitive(token) ==
    token \in { <<"J","r">>, <<"J","r",".">>, <<"S","r">>, <<"S","r",".">>,
                <<"I","I">>, <<"I","I","I">>, <<"I","V">> }

\* re.match(r"^(Jr\.?|Sr\.?|I{2,3}|IV)$", token, re.IGNORECASE)
suffix_pattern(token) ==
    Lower(token) \in { <<"j","r">>, <<"j","r",".">>, <<"s","r">>, <<"s","r",".">>,
                       <<"i","i">>, <<"i","i","i">>, <<"i","v">> }

_extract_last_name(full_name) ==
    IF ~Truthy(full_name) THEN <<>>
    ELSE LET parts == split(full_name) IN
         IF parts = <<>> THEN <<>>
         ELSE IF Len(parts) > 1 /\ suffix_pattern(parts[Len(parts)])
              THEN parts[Len(parts) - 1]
              ELSE parts[Len(parts)]

_extract_first_name(full_name) ==
    IF ~Truthy(full_name) THEN <<>>
    ELSE LET parts == split(full_name) IN
         IF parts = <<>> THEN <<>> ELSE parts[1]

\* the module-level extract_last_name(full_name)
extract_last_name(full_name) == _extract_last_name(full_name)

---------------------------------------------------------------------------
(* String literals used by the program and by the inputs of the model *)

Join(a, b) == a \o <<" ">> \o b

sJose == <<"J","o","s","e">>
sJoseAcc == <<"J","o","s","é">>
sJo == <<"J","o">>
sAl == <<"A","l">>
sA == <<"A">>
sRamirez == <<"R","a","m","i","r","e","z">>
sRamirezAcc == <<"R","a","m","í","r","e","z">>
sSmith == <<"S","m","i","t","h">>
sJr == <<"J","r",".">>

tKC == <<"K","C">>
tKCR == <<"K","C","R">>
tSD == <<"S","D">>
tSDP == <<"S","D","P">>
tTB == <<"T","B">>
tTBR == <<"T","B","R">>
tSF == <<"S","F">>
tSFG == <<"S","F","G">>
tNYY == <<"N","Y","Y">>

stActive == <<"a","c","t","i","v","e">>
stInjured == <<"i","n","j","u","r","e","d">>
stOther == <<"b","e","n","c","h">>
stRetired == <<"r","e","t","i","r","e","d">>

ESPN_TO_FG_TEAM_MAPPING ==
    (tKC :> tKCR) @@ (tSD :> tSDP) @@ (tTB :> tTBR) @@ (tSF :> tSFG)

special_players ==
    << Join(<<"G","a","r","y">>, <<"S","a","n","c","h","e","z">>),
       Join(sJose, sRamirez),
       Join(<<"L","u","i","s">>, <<"G","a","r","c","i","a">>),
       Join(<<"E","u","g","e","n","i","o">>, <<"S","u","a","r","e","z">>) >>

\* x in list
InList(x, list) == \E k \in 1..Len(list) : list[k] = x

---------------------------------------------------------------------------
(* models/player.py *)

\* A PlayerModel with the fields the matcher and the merge read or write.
\* The fields filled by the merge default to None, as in the class.
PlayerModel(id, name, firstName, lastName, proTeam, status) ==
    [ id_espn |-> id, name |-> name, first_name |-> firstName, last_name |-> lastName,
      pro_team |-> proTeam, status |-> status,
      id_fangraphs |-> None, id_xmlbam |-> None,
      name_nonascii |-> None, name_ascii |-> None,
      slug_fangraphs |-> None, fangraphs_api_route |-> None ]

\* merge_fangraphs_data assigning the two names without the "if not" guards
merge_fangraphs_data_last_name_wins(self, data) ==
    [ self EXCEPT
        !.id_fangraphs = IF "playerid" \in DOMAIN data THEN data["playerid"] ELSE @,
        !.id_xmlbam = IF "xmlbam_id" \in DOMAIN data THEN data["xmlbam_id"] ELSE @,
        !.name_nonascii = IF "name" \in DOMAIN data THEN data["name"] ELSE @,
        !.name_ascii = IF "ascii_name" \in DOMAIN data THEN data["ascii_name"] ELSE @,
        !.slug_fangraphs = IF "slug" \in DOMAIN data THEN data["slug"] ELSE @,
        !.fangraphs_api_route = IF "stats_api" \in DOMAIN data THEN data["stats_api"] ELSE @ ]

\* merge_fangraphs_data with a case "team" that assigns pro_team
merge_fangraphs_data_with_team(self, data) ==
    [ self EXCEPT
        !.id_fangraphs = IF "playerid" \in DOMAIN data THEN data["playerid"] ELSE @,
        !.id_xmlbam = IF "xmlbam_id" \in DOMAIN data THEN data["xmlbam_id"] ELSE @,
        !.name_nonascii = IF "name" \in DOMAIN data /\ ~Truthy(@) THEN data["name"] ELSE @,
        !.name_ascii = IF "ascii_name" \in DOMAIN data /\ ~Truthy(@)
                       THEN data["ascii_name"] ELSE @,
        !.slug_fangraphs = IF "slug" \in DOMAIN data THEN data["slug"] ELSE @,
        !.fangraphs_api_route = IF "stats_api" \in DOMAIN data THEN data["stats_api"] ELSE @,
        !.pro_team = IF "team" \in DOMAIN data THEN data["team"] ELSE @ ]

\* str.strip(), as str_strip_whitespace=True applies it to every str field
strip(s) ==
    LET kept == {k \in 1..Len(s) : ~IsSpace(s[k])}
    IN  IF kept = {} THEN <<>>
        ELSE SubSeq(s, CHOOSE k \in kept : \A j \in kept : k <= j,
                       CHOOSE k \in kept : \A j \in kept : j <= k)

Digits == <<"0","1","2","3","4","5","6","7","8","9">>

\* str.isdigit() on an ASCII string
isdigit(s) == s # <<>> /\ \A k \in 1..Len(s) : InList(s[k], Digits)

\* int(s) of a string of digits
RECURSIVE int(_)
int(s) ==
    IF s = <<>> THEN 0
    ELSE 10 * int(SubSeq(s, 1, Len(s) - 1))
           + ((CHOOSE d \in 1..Len(Digits) : Digits[d] = s[Len(s)]) - 1)

\* the validation of an Optional[int] field given None or a str (a raw
\* integer is written here as its decimal string): a string of digits is
\* converted, any other string is a validation error
int_field_valid(value) == value = None \/ isdigit(value)
int_field(value) == IF value = None THEN None ELSE int(value)

\* the validation of an Optional[str] field
str_field(value) == IF value = None THEN None ELSE strip(value)

\* model_validate(obj) raises ValueError: for a retired player (line 98),
\* and when the validation of line 114 fails, ValidationError being a
\* ValueError; of the fields, id and jersey are the ones with a type other
\* than str, jersey being "" or a string of digits handled in lines 106-111
model_validate_raises(obj) ==
    \/ get(obj, "status", None) = stRetired
    \/ ~int_field_valid(get(obj, "id", None))
    \/ LET jersey == get(obj, "jersey", None)
       IN  ~(jersey = <<>> \/ int_field_valid(jersey))

\* PlayerModel.model_validate(obj) when it does not raise: the fields are
\* read by their aliases and the strings stripped
model_validate(obj) ==
    PlayerModel(int_field(get(obj, "id", None)),
                str_field(get(obj, "name", None)),
                str_field(get(obj, "firstName", None)),
                str_field(get(obj, "lastName", None)),
                str_field(get(obj, "proTeam", None)),
                str_field(get(obj, "status", None)))

\* PlayerModel.merge_fangraphs_data(self, data): the value of self afterwards.
\* The keys of a dict are distinct and every case of the match statement
\* assigns a field of its own, so the loop is a simultaneous assignment.
merge_fangraphs_data(self, data) ==
    [ self EXCEPT
        !.id_fangraphs = IF "playerid" \in DOMAIN data THEN data["playerid"] ELSE @,
        !.id_xmlbam = IF "xmlbam_id" \in DOMAIN data THEN data["xmlbam_id"] ELSE @,
        !.name_nonascii = IF "name" \in DOMAIN data /\ ~Truthy(@) THEN data["name"] ELSE @,
        !.name_ascii = IF "ascii_name" \in DOMAIN data /\ ~Truthy(@)
                       THEN data["ascii_name"] ELSE @,
        !.slug_fangraphs = IF "slug" \in DOMAIN data THEN data["slug"] ELSE @,
        !.fangraphs_api_route = IF "stats_api" \in DOMAIN data THEN data["stats_api"] ELSE @ ]

---------------------------------------------------------------------------
(* Inputs of the model: the PlayerModel objects and FanGraphs dictionaries *)
(* the lists handed to PlayerMatcher are drawn from.                      *)

PlayerPool ==
    << PlayerModel(1, Join(sJose, sRamirez), sJose, sRamirez, tKC, stActive),
       PlayerModel(2, Join(sJose, sRamirez), sJose, sRamirez, tNYY, stOther),
       [ PlayerModel(3, Join(sJo, sRamirez), sJo, sRamirez, tKC, stInjured)
           EXCEPT !.id_fangraphs = <<"9">>, !.id_xmlbam = <<"9">> ],
       PlayerModel(4, Join(sAl, Join(sRamirez, sJr)), sAl, Join(sRamirez, sJr), tKC, stOther),
       PlayerModel(5, Join(sJose, Join(sRamirez, sJr)), sJose, Join(sRamirez, sJr), None, stActive),
       PlayerModel(6, sSmith, <<>>, sSmith, <<>>, None) >>

CandidatePool ==
    << [ name |-> Join(sJoseAcc, sRamirezAcc), ascii_name |-> Join(sJose, sRamirez),
         team |-> tKCR, playerid |-> <<"1">>, xmlbam_id |-> <<"7">>,
         slug |-> <<"j","r">>, stats_api |-> <<"/","1">> ],
       [ name |-> Join(sJose, sRamirez), team |-> tNYY, playerid |-> <<"2">> ],
       [ name |-> Join(sJose, sRamirez), team |-> tKCR ],
       [ name |-> Join(sA, Join(sRamirez, sJr)), team |-> tKCR, playerid |-> <<"3">> ],
       [ team |-> tNYY, playerid |-> <<"4">> ],
       [ name |-> Join(sJo, sSmith), playerid |-> <<"5">> ],
       [ name |-> Join(sJose, sRamirez), ascii_name |-> <<>>, team |-> tNYY,
         playerid |-> <<"6">> ] >>

\* every list of at most n elements of pool
ListsOf(pool, n) ==
    UNION { { [i \in 1..k |-> pool[f[i]]] : f \in [1..k -> 1..Len(pool)] } : k \in 0..n }

\* every list of at most n different elements of pool: the matcher is given
\* one object per player and one dictionary per FanGraphs record
DistinctListsOf(pool, n) ==
    UNION { { [i \in 1..k |-> pool[f[i]]] :
                f \in {g \in [1..k -> 1..Len(pool)] :
                          \A i, j \in 1..k : i # j => g[i] # g[j]} } : k \in 0..n }

---------------------------------------------------------------------------
(* matchers/player_matcher.py: PlayerMatcher *)

\* name_field always "name", ascii_name never looked at
name_field_raw(fg_player) == "name"

\* name_field = "ascii_name" if "ascii_name" in fg_player else "name"
name_field(fg_player) == IF "ascii_name" \in DOMAIN fg_player THEN "ascii_name" ELSE "name"

\* _organize_fg_data_by_last_name: the index after the first n dictionaries of
\* data have been visited; a list of the index holds positions of data
RECURSIVE OrganizeUpTo(_, _)
OrganizeUpTo(data, n) ==
    IF n = 0 THEN << >>
    ELSE LET index == OrganizeUpTo(data, n - 1)
             fg_player == data[n]
             field == name_field(fg_player)
         IN  IF field \notin DOMAIN fg_player THEN index
             ELSE LET last_name == _extract_last_name(fg_player[field]) IN
                  IF ~Truthy(last_name) THEN index
                  ELSE IF last_name \in DOMAIN index
                       THEN [index EXCEPT ![last_name] = Append(@, n)]
                       ELSE index @@ (last_name :> <<n>>)

_organize_fg_data_by_last_name(data) == OrganizeUpTo(data, Len(data))

\* not_matched without the test against matched_fg_ids
not_matched_unfiltered(c) == TRUE

\* the claimed filter of _find_candidates_by_last_name
not_matched(c) == get(fg_data[c], "playerid", None) \notin matched_fg_ids

\* _find_candidates_by_last_name looking the raw last_name field up, suffix kept
_find_candidates_by_raw_last_name(player) ==
    IF ~Truthy(player.last_name) THEN <<>>
    ELSE SelectSeq(get(fg_by_last_name, player.last_name, <<>>), not_matched)

_find_candidates_by_last_name(player) ==
    IF ~Truthy(player.last_name) THEN <<>>
    ELSE LET last_name == _extract_last_name(player.last_name) IN
         IF ~Truthy(last_name) THEN <<>>
         ELSE LET all_candidates == get(fg_by_last_name, last_name, <<>>) IN
              SelectSeq(all_candidates, not_matched)

\* the first name of a candidate, as both first-name stages derive it
fg_first_name(candidate) ==
    _extract_first_name(get(fg_data[candidate], name_field(fg_data[candidate]), <<>>))

_find_exact_first_name_matches(player, candidates) ==
    IF ~Truthy(player.first_name) THEN <<>>
    ELSE LET test(c) == Truthy(fg_first_name(c)) /\ fg_first_name(c) = player.first_name
         IN  SelectSeq(candidates, test)

\* _find_prefix_first_name_matches keeping only the candidates whose first
\* name starts with the player's
_find_prefix_first_name_matches_one_way(player, candidates) ==
    IF ~Truthy(player.first_name) THEN <<>>
    ELSE LET test(c) == /\ Truthy(fg_first_name(c))
                        /\ startswith(fg_first_name(c), player.first_name)
         IN  SelectSeq(candidates, test)

_find_prefix_first_name_matches(player, candidates) ==
    IF ~Truthy(player.first_name) THEN <<>>
    ELSE LET test(c) == /\ Truthy(fg_first_name(c))
                        /\ \/ startswith(fg_first_name(c), player.first_name)
                           \/ startswith(player.first_name, fg_first_name(c))
         IN  SelectSeq(candidates, test)

\* _filter_by_team without the "if not team_code" guard
_filter_by_team_unguarded(candidates, team_code) ==
    LET fg_team_code == get(ESPN_TO_FG_TEAM_MAPPING, team_code, team_code)
        test(candidate) == get(fg_data[candidate], "team", None) = fg_team_code
    IN  SelectSeq(candidates, test)

\* PlayerMatcher._filter_by_team as the matcher calls it: candidates holds
\* positions of fg_data, and the positions of the kept dictionaries are returned
_filter_by_team(candidates, team_code) ==
    IF ~Truthy(team_code) THEN <<>>
    ELSE LET fg_team_code == get(ESPN_TO_FG_TEAM_MAPPING, team_code, team_code)
             test(candidate) == get(fg_data[candidate], "team", None) = fg_team_code
         IN  SelectSeq(candidates, test)

\* PlayerMatcher._filter_by_team called on a list of dictionaries
PlayerMatcher_filter_by_team(candidates, team_code) ==
    IF ~Truthy(team_code) THEN <<>>
    ELSE LET fg_team_code == get(ESPN_TO_FG_TEAM_MAPPING, team_code, team_code)
             test(candidate) == get(candidate, "team", None) = fg_team_code
         IN  SelectSeq(candidates, test)

\* filter_by_team comparing with the ESPN code itself, the mapping left out
filter_by_team_unmapped(candidates, team_code) ==
    IF ~Truthy(team_code) THEN <<>>
    ELSE LET test(candidate) == get(candidate, "team", None) = team_code
         IN  SelectSeq(candidates, test)

\* the module-level filter_by_team(candidates, team_code), on a list of dictionaries
filter_by_team(candidates, team_code) ==
    IF ~Truthy(team_code) THEN <<>>
    ELSE LET fg_team_code == get(ESPN_TO_FG_TEAM_MAPPING, team_code, team_code)
             test(candidate) == get(candidate, "team", None) = fg_team_code
         IN  SelectSeq(candidates, test)

\* What a _try_match_* method did: "match" is a call of _process_match(player,
\* match), "ambiguous" an append of (player, candidates) to ambiguous_matches,
\* "none" neither; ret is the value returned.
Matched(c) == [ret |-> TRUE, did |-> "match", match |-> c, candidates |-> <<>>]
Ambiguous(cs) == [ret |-> TRUE, did |-> "ambiguous", match |-> 0, candidates |-> cs]
NotHandled == [ret |-> FALSE, did |-> "none", match |-> 0, candidates |-> <<>>]
Unmatched == [ret |-> TRUE, did |-> "unmatched", match |-> 0, candidates |-> <<>>]

\* _try_match_exact_first_name reporting several exact hits as ambiguous at once
_try_match_exact_first_name_no_team(player, candidates) ==
    LET exact_matches == _find_exact_first_name_matches(player, candidates) IN
    IF Len(exact_matches) = 1 THEN Matched(exact_matches[1])
    ELSE IF Len(exact_matches) > 1 THEN Ambiguous(exact_matches)
         ELSE NotHandled

\* _try_match_exact_first_name accepting a single exact hit only on the player's team
_try_match_exact_first_name_team_checked(player, candidates) ==
    LET exact_matches == _find_exact_first_name_matches(player, candidates)
        team_matches == _filter_by_team(exact_matches, player.pro_team)
    IN  IF Len(team_matches) = 1 THEN Matched(team_matches[1])
        ELSE IF Len(exact_matches) > 0 THEN Ambiguous(exact_matches)
        ELSE NotHandled

\* _try_match_exact_first_name reporting the team-filtered list as ambiguous
_try_match_exact_first_name_team_subset(player, candidates) ==
    LET exact_matches == _find_exact_first_name_matches(player, candidates) IN
    IF Len(exact_matches) = 1 THEN Matched(exact_matches[1])
    ELSE IF Len(exact_matches) > 1
         THEN LET team_matches == _filter_by_team(exact_matches, player.pro_team) IN
              IF Len(team_matches) = 1 THEN Matched(team_matches[1])
              ELSE Ambiguous(team_matches)
         ELSE NotHandled

_try_match_exact_first_name(player, candidates) ==
    LET exact_matches == _find_exact_first_name_matches(player, candidates) IN
    IF Len(exact_matches) = 1 THEN Matched(exact_matches[1])
    ELSE IF Len(exact_matches) > 1
         THEN LET team_matches == _filter_by_team(exact_matches, player.pro_team) IN
              IF Len(team_matches) = 1 THEN Matched(team_matches[1])
              ELSE Ambiguous(exact_matches)
         ELSE NotHandled

_try_match_prefix_first_name(player, candidates) ==
    LET prefix_matches == _find_prefix_first_name_matches(player, candidates) IN
    IF Len(prefix_matches) = 1 THEN Matched(prefix_matches[1])
    ELSE IF Len(prefix_matches) > 1
         THEN LET team_matches == _filter_by_team(prefix_matches, player.pro_team) IN
              IF Len(team_matches) = 1 THEN Matched(team_matches[1])
              ELSE Ambiguous(prefix_matches)
         ELSE NotHandled

\* _try_match_by_team giving up when the team filter keeps nothing
_try_match_by_team_or_give_up(player, candidates) ==
    LET team_matches == _filter_by_team(candidates, player.pro_team) IN
    IF Len(team_matches) = 1 THEN Matched(team_matches[1])
    ELSE IF team_matches # <<>> THEN Ambiguous(team_matches)
         ELSE NotHandled

\* _try_match_by_team reporting the team-filtered list as ambiguous even when it is empty
_try_match_by_team_filtered_only(player, candidates) ==
    LET team_matches == _filter_by_team(candidates, player.pro_team) IN
    IF Len(team_matches) = 1 THEN Matched(team_matches[1])
    ELSE Ambiguous(team_matches)

\* _try_match_by_team settling for the first candidate when none is on the team
_try_match_by_team_or_first_candidate(player, candidates) ==
    LET team_matches == _filter_by_team(candidates, player.pro_team) IN
    IF Len(team_matches) = 1 THEN Matched(team_matches[1])
    ELSE IF team_matches # <<>> THEN Ambiguous(team_matches)
         ELSE Matched(candidates[1])

\* _try_match_by_team taking a candidate that is alone in the pool, whatever its team
_try_match_by_team_or_lone_candidate(player, candidates) ==
    LET team_matches == _filter_by_team(candidates, player.pro_team) IN
    IF Len(team_matches) = 1 THEN Matched(team_matches[1])
    ELSE IF team_matches # <<>> THEN Ambiguous(team_matches)
         ELSE IF Len(candidates) = 1 THEN Matched(candidates[1])
              ELSE Ambiguous(candidates)

_try_match_by_team(player, candidates) ==
    LET team_matches == _filter_by_team(candidates, player.pro_team) IN
    IF Len(team_matches) = 1 THEN Matched(team_matches[1])
    ELSE IF team_matches # <<>> THEN Ambiguous(team_matches)
         ELSE Ambiguous(candidates)

\* _match_player without the early return on an empty candidate list
_match_player_no_early_return(p) ==
    LET player == espn_players[p]
        candidates == _find_candidates_by_last_name(player)
        exact == _try_match_exact_first_name(player, candidates)
        prefix == _try_match_prefix_first_name(player, candidates)
        team == _try_match_by_team(player, candidates)
    IN  IF exact.ret THEN exact
        ELSE IF prefix.ret THEN prefix
        ELSE IF team.ret THEN team
        ELSE Unmatched

\* _match_player(player): what it does to the matcher, player being the
\* object at position p of espn_players
_match_player(p) ==
    LET player == espn_players[p]
        candidates == _find_candidates_by_last_name(player)
    IN  IF candidates = <<>> THEN Unmatched
        ELSE LET exact == _try_match_exact_first_name(player, candidates) IN
             IF exact.ret THEN exact
             ELSE LET prefix == _try_match_prefix_first_name(player, candidates) IN
                  IF prefix.ret THEN prefix
                  ELSE LET team == _try_match_by_team(player, candidates) IN
                       IF team.ret THEN team
                       ELSE Unmatched

\* the four lists of match_players, as positions of players_to_match
Positions(players) == [i \in 1..Len(players) |-> i]

special_player_models(players) ==
    LET test(p) == InList(players[p].name, special_players)
    IN  SelectSeq(Positions(players), test)

remaining_players(players) ==
    LET test(p) == ~InList(players[p].name, special_players)
    IN  SelectSeq(Positions(players), test)

team_players(players) ==
    LET test(p) == players[p].pro_team # None /\ players[p].pro_team # <<>>
    IN  SelectSeq(remaining_players(players), test)

no_team_players(players) ==
    LET test(p) == players[p].pro_team = None \/ players[p].pro_team = <<>>
    IN  SelectSeq(remaining_players(players), test)

active_team_players(players) ==
    LET test(p) == players[p].status = stActive \/ players[p].status = stInjured
    IN  SelectSeq(team_players(players), test)

\* inactive_team_players testing the status against "active" alone
inactive_team_players_not_active(players) ==
    LET test(p) == players[p].status # stActive
    IN  SelectSeq(team_players(players), test)

inactive_team_players(players) ==
    LET test(p) == players[p].status # stActive /\ players[p].status # stInjured
    IN  SelectSeq(team_players(players), test)

\* the loops of match_players with the inactive players ahead of the active ones
processing_order_inactive_first(players) ==
    special_player_models(players) \o inactive_team_players(players)
        \o active_team_players(players) \o no_team_players(players)

\* the order in which the four loops of match_players visit the players
processing_order(players) ==
    special_player_models(players) \o active_team_players(players)
        \o inactive_team_players(players) \o no_team_players(players)

---------------------------------------------------------------------------
(* The matcher: PlayerMatcher(espn_players, fangraphs_data).match_players() *)

\* the state PlayerMatcher.__init__ leaves
Init ==
    /\ espn_players \in DistinctListsOf(PlayerPool, MaxPlayers)
    /\ fg_data \in DistinctListsOf(CandidatePool, MaxCandidates)
    /\ fg_by_last_name = _organize_fg_data_by_last_name(fg_data)
    /\ matched_players = <<>>
    /\ ambiguous_matches = <<>>
    /\ unmatched_players = <<>>
    /\ matched_fg_ids = {}
    /\ pc = "constructed"
    /\ todo = <<>>
    /\ log = <<>>
    /\ m_player = None
    /\ m_hist = <<>>
    /\ f_candidates = <<>>
    /\ f_team_code = None
    /\ f_result = <<>>
    /\ f_method_result = <<>>
    /\ f_pc = "idle"
    /\ n_tokens = <<>>
    /\ n_full_name = <<>>
    /\ n_result = <<>>
    /\ n_pc = "idle"
    /\ b_player_data = <<>>
    /\ b_valid_players = <<>>
    /\ b_skipped_count = 0
    /\ b_next = 1
    /\ b_pc = "idle"
    /\ r_reruns = 0
    /\ r_first = NoRun

\* match_players ordering self.espn_players itself instead of building lists from a copy
match_players_begin_in_place ==
    /\ pc = "constructed"
    /\ matched_players' = <<>>
    /\ ambiguous_matches' = <<>>
    /\ unmatched_players' = <<>>
    /\ matched_fg_ids' = {}
    /\ espn_players' = [k \in 1..Len(espn_players) |->
                           espn_players[processing_order(espn_players)[k]]]
    /\ todo' = Positions(espn_players)
    /\ pc' = "loop"
    /\ UNCHANGED <<fg_data, fg_by_last_name, log>>
    /\ UNCHANGED <<merge_vars, filter_vars, name_vars, builder_vars, rerun_vars>>

\* match_players, up to the first loop: the reset and the four lists
match_players_begin ==
    /\ pc = "constructed"
    /\ matched_players' = <<>>
    /\ ambiguous_matches' = <<>>
    /\ unmatched_players' = <<>>
    /\ matched_fg_ids' = {}
    /\ todo' = processing_order(espn_players)
    /\ pc' = "loop"
    /\ UNCHANGED <<espn_players, fg_data, fg_by_last_name, log>>
    /\ UNCHANGED <<merge_vars, filter_vars, name_vars, builder_vars, rerun_vars>>

\* _process_match without the lines that record the claim
_process_match_no_claim(p, c) ==
    /\ espn_players' = [espn_players EXCEPT ![p] = merge_fangraphs_data(@, fg_data[c])]
    /\ matched_players' = Append(matched_players, p)
    /\ matched_fg_ids' = matched_fg_ids
    /\ log' = Append(log, <<p, c>>)

\* _process_match(player, match), player at position p and match at position c
_process_match(p, c) ==
    /\ espn_players' = [espn_players EXCEPT ![p] = merge_fangraphs_data(@, fg_data[c])]
    /\ matched_players' = Append(matched_players, p)
    /\ matched_fg_ids' = IF "playerid" \in DOMAIN fg_data[c]
                         THEN matched_fg_ids \cup {fg_data[c]["playerid"]}
                         ELSE matched_fg_ids
    /\ log' = Append(log, <<p, c>>)

\* an iteration that also claims the candidates it reports as ambiguous
match_players_iteration_claiming_ambiguous ==
    /\ pc = "loop"
    /\ todo # <<>>
    /\ LET p == Head(todo)
           done == _match_player(p)
       IN  CASE done.did = "match" ->
                  /\ _process_match(p, done.match)
                  /\ UNCHANGED <<ambiguous_matches, unmatched_players>>
             [] done.did = "ambiguous" ->
                  /\ ambiguous_matches' = Append(ambiguous_matches, <<p, done.candidates>>)
                  /\ matched_fg_ids' = matched_fg_ids \cup
                        { get(fg_data[done.candidates[k]], "playerid", None) :
                            k \in 1..Len(done.candidates) }
                  /\ UNCHANGED <<espn_players, matched_players, unmatched_players, log>>
             [] OTHER ->
                  /\ unmatched_players' = Append(unmatched_players, p)
                  /\ UNCHANGED <<espn_players, matched_players, ambiguous_matches,
                                 matched_fg_ids, log>>
    /\ todo' = Tail(todo)
    /\ UNCHANGED <<fg_data, fg_by_last_name, pc>>
    /\ UNCHANGED <<merge_vars, filter_vars, name_vars, builder_vars, rerun_vars>>

\* an iteration that merges the first candidate into a player it reports as ambiguous
match_players_iteration_merging_ambiguous ==
    /\ pc = "loop"
    /\ todo # <<>>
    /\ LET p == Head(todo)
           done == _match_player(p)
       IN  CASE done.did = "match" ->
                  /\ _process_match(p, done.match)
                  /\ UNCHANGED <<ambiguous_matches, unmatched_players>>
             [] done.did = "ambiguous" ->
                  /\ ambiguous_matches' = Append(ambiguous_matches, <<p, done.candidates>>)
                  /\ espn_players' = [espn_players EXCEPT
                        ![p] = merge_fangraphs_data(@, fg_data[done.candidates[1]])]
                  /\ UNCHANGED <<matched_players, unmatched_players, matched_fg_ids, log>>
             [] OTHER ->
                  /\ unmatched_players' = Append(unmatched_players, p)
                  /\ UNCHANGED <<espn_players, matched_players, ambiguous_matches,
                                 matched_fg_ids, log>>
    /\ todo' = Tail(todo)
    /\ UNCHANGED <<fg_data, fg_by_last_name, pc>>
    /\ UNCHANGED <<merge_vars, filter_vars, name_vars, builder_vars, rerun_vars>>

\* one iteration of a loop of match_players: self._match_player(player)
match_players_iteration ==
    /\ pc = "loop"
    /\ todo # <<>>
    /\ LET p == Head(todo)
           done == _match_player(p)
       IN  CASE done.did = "match" ->
                  /\ _process_match(p, done.match)
                  /\ UNCHANGED <<ambiguous_matches, unmatched_players>>
             [] done.did = "ambiguous" ->
                  /\ ambiguous_matches' = Append(ambiguous_matches, <<p, done.candidates>>)
                  /\ UNCHANGED <<espn_players, matched_players, unmatched_players,
                                 matched_fg_ids, log>>
             [] OTHER ->
                  /\ unmatched_players' = Append(unmatched_players, p)
                  /\ UNCHANGED <<espn_players, matched_players, ambiguous_matches,
                                 matched_fg_ids, log>>
    /\ todo' = Tail(todo)
    /\ UNCHANGED <<fg_data, fg_by_last_name, pc>>
    /\ UNCHANGED <<merge_vars, filter_vars, name_vars, builder_vars, rerun_vars>>

\* match_players returns the three buckets
match_players_return ==
    /\ pc = "loop"
    /\ todo = <<>>
    /\ pc' = "done"
    /\ UNCHANGED <<espn_players, fg_data, fg_by_last_name, matched_players,
                   ambiguous_matches, unmatched_players, matched_fg_ids, todo, log>>
    /\ UNCHANGED <<merge_vars, filter_vars, name_vars, builder_vars, rerun_vars>>

Next ==
    \/ match_players_begin
    \/ match_players_iteration
    \/ match_players_return

Spec == Init /\ [][Next]_vars

---------------------------------------------------------------------------
(* match_players called again on the same PlayerMatcher *)

MaxReruns == 1

\* what a call of match_players has left when it has returned
RunRecord ==
    [ players |-> espn_players, matched |-> matched_players,
      ambiguous |-> ambiguous_matches, unmatched |-> unmatched_players,
      claimed |-> matched_fg_ids, log |-> log ]

\* a further call that starts from the claimed set the call before left
match_players_again_keeping_claims ==
    /\ pc = "done"
    /\ r_reruns < MaxReruns
    /\ matched_players' = <<>>
    /\ ambiguous_matches' = <<>>
    /\ unmatched_players' = <<>>
    /\ matched_fg_ids' = matched_fg_ids
    /\ todo' = processing_order(espn_players)
    /\ log' = <<>>
    /\ pc' = "loop"
    /\ r_reruns' = r_reruns + 1
    /\ r_first' = IF r_reruns = 0 THEN RunRecord ELSE r_first
    /\ UNCHANGED <<espn_players, fg_data, fg_by_last_name>>
    /\ UNCHANGED <<merge_vars, filter_vars, name_vars, builder_vars>>

\* a further call of match_players, up to the first loop: the reset and the
\* four lists, on the players as the calls before left them; log starts
\* again as the record of this call
match_players_again ==
    /\ pc = "done"
    /\ r_reruns < MaxReruns
    /\ matched_players' = <<>>
    /\ ambiguous_matches' = <<>>
    /\ unmatched_players' = <<>>
    /\ matched_fg_ids' = {}
    /\ todo' = processing_order(espn_players)
    /\ log' = <<>>
    /\ pc' = "loop"
    /\ r_reruns' = r_reruns + 1
    /\ r_first' = IF r_reruns = 0 THEN RunRecord ELSE r_first
    /\ UNCHANGED <<espn_players, fg_data, fg_by_last_name>>
    /\ UNCHANGED <<merge_vars, filter_vars, name_vars, builder_vars>>

RerunNext ==
    \/ match_players_begin
    \/ match_players_iteration
    \/ match_players_return
    \/ match_players_again

RerunSpec == Init /\ [][RerunNext]_vars

---------------------------------------------------------------------------
(* PlayerModel.merge_fangraphs_data called repeatedly on one PlayerModel *)

sAlSmith == Join(sAl, sSmith)

MergePlayerPool ==
    << PlayerPool[1],
       PlayerPool[3],
       [ PlayerPool[5] EXCEPT !.name_nonascii = <<>>, !.name_ascii = sAlSmith,
                              !.slug_fangraphs = <<"o","l","d">> ] >>

MergeDataPool ==
    CandidatePool \o
    << << >>,
       [ name |-> sAlSmith, ascii_name |-> sAlSmith, team |-> tSDP, age |-> <<"3","0">>,
         playerid |-> <<"5">>, xmlbam_id |-> <<"6">> ],
       [ team |-> tSDP, slug |-> <<"a","s">>, stats_api |-> <<"/","5">> ] >>

MergeInit ==
    /\ m_player \in { MergePlayerPool[k] : k \in 1..Len(MergePlayerPool) }
    /\ m_hist = <<>>
    /\ espn_players = <<>>
    /\ fg_data = <<>>
    /\ fg_by_last_name = <<>>
    /\ matched_players = <<>>
    /\ ambiguous_matches = <<>>
    /\ unmatched_players = <<>>
    /\ matched_fg_ids = {}
    /\ pc = "idle"
    /\ todo = <<>>
    /\ log = <<>>
    /\ f_candidates = <<>>
    /\ f_team_code = None
    /\ f_result = <<>>
    /\ f_method_result = <<>>
    /\ f_pc = "idle"
    /\ n_tokens = <<>>
    /\ n_full_name = <<>>
    /\ n_result = <<>>
    /\ n_pc = "idle"
    /\ b_player_data = <<>>
    /\ b_valid_players = <<>>
    /\ b_skipped_count = 0
    /\ b_next = 1
    /\ b_pc = "idle"
    /\ r_reruns = 0
    /\ r_first = NoRun

\* m_player.merge_fangraphs_data(data)
merge_call ==
    /\ Len(m_hist) < MaxMerges
    /\ \E k \in 1..Len(MergeDataPool) :
          LET data == MergeDataPool[k] IN
          /\ m_player' = merge_fangraphs_data(m_player, data)
          /\ m_hist' = Append(m_hist, [before |-> m_player, data |-> data, after |-> m_player'])
    /\ UNCHANGED <<matcher_vars, filter_vars, name_vars, builder_vars, rerun_vars>>

MergeNext == merge_call

MergeSpec == MergeInit /\ [][MergeNext]_vars

---------------------------------------------------------------------------
(* filter_by_team and PlayerMatcher._filter_by_team called on the same arguments *)

FilterCandidatePool ==
    << [ name |-> sJo, team |-> tKCR ],
       [ name |-> sAl, team |-> tKCR ],
       [ team |-> tKC ],
       [ team |-> tSDP ],
       [ team |-> tTBR ],
       [ team |-> tSFG ],
       [ team |-> tNYY ],
       [ team |-> <<>> ],
       [ team |-> None ],
       [ name |-> sJo ] >>

FilterTeamCodes == { tKC, tSD, tTB, tSF, tNYY, tKCR, <<>>, None }

FilterInit ==
    /\ f_candidates \in ListsOf(FilterCandidatePool, MaxFilterCandidates)
    /\ f_team_code \in FilterTeamCodes
    /\ f_result = <<>>
    /\ f_method_result = <<>>
    /\ f_pc = "call"
    /\ m_player = None
    /\ m_hist = <<>>
    /\ espn_players = <<>>
    /\ fg_data = <<>>
    /\ fg_by_last_name = <<>>
    /\ matched_players = <<>>
    /\ ambiguous_matches = <<>>
    /\ unmatched_players = <<>>
    /\ matched_fg_ids = {}
    /\ pc = "idle"
    /\ todo = <<>>
    /\ log = <<>>
    /\ n_tokens = <<>>
    /\ n_full_name = <<>>
    /\ n_result = <<>>
    /\ n_pc = "idle"
    /\ b_player_data = <<>>
    /\ b_valid_players = <<>>
    /\ b_skipped_count = 0
    /\ b_next = 1
    /\ b_pc = "idle"
    /\ r_reruns = 0
    /\ r_first = NoRun

\* filter_by_team(candidates, team_code) and matcher._filter_by_team(candidates, team_code)
filter_call ==
    /\ f_pc = "call"
    /\ f_result' = filter_by_team(f_candidates, f_team_code)
    /\ f_method_result' = PlayerMatcher_filter_by_team(f_candidates, f_team_code)
    /\ f_pc' = "done"
    /\ UNCHANGED <<f_candidates, f_team_code>>
    /\ UNCHANGED <<matcher_vars, merge_vars, name_vars, builder_vars, rerun_vars>>

FilterNext == filter_call

FilterSpec == FilterInit /\ [][FilterNext]_vars

---------------------------------------------------------------------------
(* extract_last_name called on one full name *)

\* the tokens the full names are written from
NameTokens ==
    << <<"K","e","n">>, <<"L","e","e">>,
       <<"J","r">>, <<"J","r",".">>, <<"j","r">>, <<"J","R",".">>,
       <<"S","r">>, <<"s","R",".">>,
       <<"I","I">>, <<"i","I","i">>, <<"I","V">>, <<"i","v">>,
       <<"I">>, <<"I","I","I","I">>, <<"V">>, <<"J","r",".",".">>, <<"J","r","s">> >>

\* the whitespace written before, between and after the tokens
NamePads == { <<>>, <<" ">>, <<"\t", " ">> }
NameSeparators == { <<" ">>, <<" ", " ">>, <<"\n", "\t">> }

\* the tokens written one after the other with sep between them
RECURSIVE Written(_, _)
Written(tokens, sep) ==
    IF tokens = <<>> THEN <<>>
    ELSE IF Len(tokens) = 1 THEN tokens[1]
    ELSE tokens[1] \o sep \o Written(Tail(tokens), sep)

NameInit ==
    /\ n_tokens \in ListsOf(NameTokens, MaxNameTokens)
    /\ \E lead \in NamePads, sep \in NameSeparators, trail \in NamePads :
          n_full_name = lead \o Written(n_tokens, sep) \o trail
    /\ n_result = <<>>
    /\ n_pc = "call"
    /\ b_player_data = <<>>
    /\ b_valid_players = <<>>
    /\ b_skipped_count = 0
    /\ b_next = 1
    /\ b_pc = "idle"
    /\ r_reruns = 0
    /\ r_first = NoRun
    /\ f_candidates = <<>>
    /\ f_team_code = None
    /\ f_result = <<>>
    /\ f_method_result = <<>>
    /\ f_pc = "idle"
    /\ m_player = None
    /\ m_hist = <<>>
    /\ espn_players = <<>>
    /\ fg_data = <<>>
    /\ fg_by_last_name = <<>>
    /\ matched_players = <<>>
    /\ ambiguous_matches = <<>>
    /\ unmatched_players = <<>>
    /\ matched_fg_ids = {}
    /\ pc = "idle"
    /\ todo = <<>>
    /\ log = <<>>

\* extract_last_name(full_name)
extract_last_name_call ==
    /\ n_pc = "call"
    /\ n_result' = extract_last_name(n_full_name)
    /\ n_pc' = "done"
    /\ UNCHANGED <<n_tokens, n_full_name>>
    /\ UNCHANGED <<matcher_vars, merge_vars, filter_vars, builder_vars, rerun_vars>>

NameNext == extract_last_name_call

NameSpec == NameInit /\ [][NameNext]_vars

---------------------------------------------------------------------------
(* utils/model_utils.py: create_player_models(player_data) *)

\* the raw ESPN records player_data is drawn from
RecordPool ==
    << [ id |-> <<"1">>, name |-> Join(sAl, sSmith), firstName |-> sAl, lastName |-> sSmith,
         proTeam |-> tKC, status |-> stActive, jersey |-> <<"7">> ],
       [ id |-> <<"2">>, name |-> Join(sJo, sSmith), firstName |-> sJo, lastName |-> sSmith,
         proTeam |-> tNYY, status |-> stRetired ],
       [ id |-> <<"3">>, name |-> <<" ">> \o Join(sJose, sRamirez) \o <<" ">>,
         status |-> <<" ">> \o stRetired, jersey |-> <<>> ],
       [ name |-> Join(sAl, Join(sRamirez, sJr)), lastName |-> Join(sRamirez, sJr) ],
       [ id |-> <<"x","1">>, name |-> Join(sJose, sSmith), status |-> stActive ],
       [ id |-> <<"4","0">>, name |-> sSmith, status |-> None, jersey |-> <<"7","a">> ] >>

\* create_player_models, up to its loop
BuilderInit ==
    /\ b_player_data \in ListsOf(RecordPool, MaxRecords)
    /\ b_valid_players = <<>>
    /\ b_skipped_count = 0
    /\ b_next = 1
    /\ b_pc = "loop"
    /\ r_reruns = 0
    /\ r_first = NoRun
    /\ n_tokens = <<>>
    /\ n_full_name = <<>>
    /\ n_result = <<>>
    /\ n_pc = "idle"
    /\ f_candidates = <<>>
    /\ f_team_code = None
    /\ f_result = <<>>
    /\ f_method_result = <<>>
    /\ f_pc = "idle"
    /\ m_player = None
    /\ m_hist = <<>>
    /\ espn_players = <<>>
    /\ fg_data = <<>>
    /\ fg_by_last_name = <<>>
    /\ matched_players = <<>>
    /\ ambiguous_matches = <<>>
    /\ unmatched_players = <<>>
    /\ matched_fg_ids = {}
    /\ pc = "idle"
    /\ todo = <<>>
    /\ log = <<>>

\* one iteration of the loop: the try block and its except ValueError
create_player_models_iteration ==
    /\ b_pc = "loop"
    /\ b_next <= Len(b_player_data)
    /\ LET player == b_player_data[b_next] IN
       IF model_validate_raises(player)
       THEN /\ b_skipped_count' = b_skipped_count + 1
            /\ UNCHANGED b_valid_players
       ELSE /\ b_valid_players' = Append(b_valid_players, model_validate(player))
            /\ UNCHANGED b_skipped_count
    /\ b_next' = b_next + 1
    /\ UNCHANGED <<b_player_data, b_pc>>
    /\ UNCHANGED <<matcher_vars, merge_vars, filter_vars, name_vars, rerun_vars>>

\* create_player_models returns valid_players
create_player_models_return ==
    /\ b_pc = "loop"
    /\ b_next > Len(b_player_data)
    /\ b_pc' = "done"
    /\ UNCHANGED <<b_player_data, b_valid_players, b_skipped_count, b_next>>
    /\ UNCHANGED <<matcher_vars, merge_vars, filter_vars, name_vars, rerun_vars>>

BuilderNext ==
    \/ create_player_models_iteration
    \/ create_player_models_return

BuilderSpec == BuilderInit /\ [][BuilderNext]_vars

---------------------------------------------------------------------------
(* Properties of match_players (specification Spec) *)

Players == 1..Len(espn_players)
Candidates == 1..Len(fg_data)

\* how often x occurs in list
Count(list, x) == Cardinality({k \in 1..Len(list) : list[k] = x})

\* the players of the ambiguous bucket, in order
ambiguous_players == [k \in 1..Len(ambiguous_matches) |-> ambiguous_matches[k][1]]

\* the player is in one of the three buckets
Resolved(p) ==
    InList(p, matched_players) \/ InList(p, ambiguous_players) \/ InList(p, unmatched_players)

\* the canonical last name of a player, and of a candidate that has a name field
PlayerLastName(p) == _extract_last_name(espn_players[p].last_name)

HasName(c) == "ascii_name" \in DOMAIN fg_data[c] \/ "name" \in DOMAIN fg_data[c]

CandidateLastName(c) ==
    _extract_last_name(IF "ascii_name" \in DOMAIN fg_data[c]
                       THEN fg_data[c]["ascii_name"] ELSE fg_data[c]["name"])

\* candidate c has the (non-empty) canonical last name of player p
SharesLastName(p, c) ==
    HasName(c) /\ PlayerLastName(p) # <<>> /\ CandidateLastName(c) = PlayerLastName(p)

\* candidate c has been claimed: its playerid is in the claimed set
Claimed(c) == get(fg_data[c], "playerid", None) \in matched_fg_ids

\* C1: when match_players has returned, every input player is in exactly one
\* of the buckets matched, multiple_matches and no_matches, and the sizes of
\* the three buckets add up to the number of players.
C1_Partition ==
    pc = "done" =>
        /\ \A p \in Players :
              Count(matched_players, p) + Count(ambiguous_players, p)
                  + Count(unmatched_players, p) = 1
        /\ Len(matched_players) + Len(ambiguous_matches) + Len(unmatched_players)
              = Len(espn_players)

C1_Witness ==
    /\ pc = "done"
    /\ Len(espn_players) = 2
    /\ Len(matched_players) = 1
    /\ Len(ambiguous_matches) + Len(unmatched_players) = 1

\* C2: no playerid is merged into two different matched players: the log
\* entries whose candidate carries a playerid have pairwise different
\* playerids and players, and each such player holds the playerid it received
\* in id_fangraphs.
C2_ClaimUniqueness ==
    \A i, j \in 1..Len(log) :
        ("playerid" \in DOMAIN fg_data[log[i][2]] /\ "playerid" \in DOMAIN fg_data[log[j][2]])
        => /\ espn_players[log[i][1]].id_fangraphs = fg_data[log[i][2]]["playerid"]
           /\ i # j => /\ log[i][1] # log[j][1]
                       /\ fg_data[log[i][2]]["playerid"] # fg_data[log[j][2]]["playerid"]

C2_Witness ==
    /\ pc = "done"
    /\ Len(log) = 2
    /\ \A i \in 1..2 : "playerid" \in DOMAIN fg_data[log[i][2]]
    /\ log[1][2] # log[2][2]
    /\ SharesLastName(log[2][1], log[1][2])
    /\ espn_players[log[1][1]].first_name = espn_players[log[2][1]].first_name

\* C3: every candidate record, with or without a playerid key, is merged
\* into at most one player: no position of fg_data occurs in two log entries.
C3_RecordMergedAtMostOnce ==
    \A i, j \in 1..Len(log) : i # j => log[i][2] # log[j][2]

\* C4 as stated: a player is in the unmatched bucket only when no input
\* candidate has its canonical last name.
C4_UnmatchedOnlyWithoutSameLastName ==
    \A p \in Players :
        InList(p, unmatched_players) => ~ \E c \in Candidates : SharesLastName(p, c)

\* C4 as amended: a player is in the unmatched bucket only when every input
\* candidate that has its canonical last name has been claimed by a player
\* matched earlier in the run.
C4_UnmatchedOnlyWithoutUnclaimedSameLastName ==
    \A p \in Players :
        InList(p, unmatched_players) =>
            \A c \in Candidates : SharesLastName(p, c) => Claimed(c)

C4_Witness ==
    /\ pc = "done"
    /\ \E p \in Players :
          /\ InList(p, unmatched_players)
          /\ \E c \in Candidates : SharesLastName(p, c) /\ Claimed(c)

\* the not yet claimed candidates that have the canonical last name of player p
UnclaimedPool(p) == {c \in Candidates : SharesLastName(p, c) /\ ~Claimed(c)}

\* C5: if the pool of unclaimed candidates with the player's canonical last
\* name is non-empty when the player is resolved, the step puts the player in
\* matched or ambiguous and leaves the unmatched bucket as it was.
C5_NonEmptyPoolNeverUnmatched ==
    [][ (pc = "loop" /\ todo # <<>> /\ UnclaimedPool(Head(todo)) # {})
        => /\ unmatched_players' = unmatched_players
           /\ \/ matched_players' = Append(matched_players, Head(todo))
              \/ /\ Len(ambiguous_matches') = Len(ambiguous_matches) + 1
                 /\ ambiguous_matches'[Len(ambiguous_matches')][1] = Head(todo) ]_vars

\* a player classified by the last branch of _try_match_by_team: ambiguous
\* against candidates none of which agrees with it in first name or team
C5_Witness ==
    \E k \in 1..Len(ambiguous_matches) :
        LET player == espn_players[ambiguous_matches[k][1]]
            candidates == ambiguous_matches[k][2]
        IN  /\ candidates # <<>>
            /\ Truthy(player.first_name)
            /\ Truthy(player.pro_team)
            /\ _find_prefix_first_name_matches(player, candidates) = <<>>
            /\ _filter_by_team(candidates, player.pro_team) = <<>>

\* the group of the processing order a player belongs to
Group(p) ==
    LET player == espn_players[p] IN
    IF InList(player.name, special_players) THEN 1
    ELSE IF player.pro_team = None \/ player.pro_team = <<>> THEN 4
    ELSE IF player.status = stActive \/ player.status = stInjured THEN 2
    ELSE 3

\* p is resolved before q: an earlier group, or the same group and earlier in the input
Before(p, q) == Group(p) < Group(q) \/ (Group(p) = Group(q) /\ p < q)

\* C9: players are resolved group by group (special names; team and active
\* or injured; team and any other status; no team) and in input order within
\* a group: whenever a player has been resolved, every player that comes
\* before it in that order has been resolved too.
C9_ProcessingOrder ==
    \A p, q \in Players : (Resolved(q) /\ Before(p, q)) => Resolved(p)

C9_Witness ==
    /\ pc = "loop"
    /\ \E p, q \in Players :
          /\ p < q
          /\ Group(q) = 3
          /\ Group(p) = 4
          /\ Resolved(q)
          /\ ~Resolved(p)

---------------------------------------------------------------------------
(* Properties of merge_fangraphs_data (specification MergeSpec) *)

Merges == 1..Len(m_hist)

\* C6: a merge leaves id_fangraphs and id_xmlbam as they were whenever they
\* were non-null before it.
C6_IdsNeverOverwritten ==
    \A k \in Merges :
        /\ m_hist[k].before.id_fangraphs # None
              => m_hist[k].after.id_fangraphs = m_hist[k].before.id_fangraphs
        /\ m_hist[k].before.id_xmlbam # None
              => m_hist[k].after.id_xmlbam = m_hist[k].before.id_xmlbam

\* C7: a merge sets name_nonascii from the key name, and name_ascii from the
\* key ascii_name, exactly when the key is present and the field is not set
\* (None or empty) before it, and leaves the field alone otherwise; so after
\* a first merge that supplies both names, a second merge changes neither.
C7_NameCaptureFirstWriteWins ==
    /\ \A k \in Merges :
          LET before == m_hist[k].before
              data == m_hist[k].data
              after == m_hist[k].after
          IN  /\ after.name_nonascii =
                    IF "name" \in DOMAIN data /\ before.name_nonascii \in {None, <<>>}
                    THEN data["name"] ELSE before.name_nonascii
              /\ after.name_ascii =
                    IF "ascii_name" \in DOMAIN data /\ before.name_ascii \in {None, <<>>}
                    THEN data["ascii_name"] ELSE before.name_ascii
    /\ \A k \in Merges :
          (/\ k > 1
           /\ {"name", "ascii_name"} \subseteq DOMAIN m_hist[1].data
           /\ m_hist[1].data["name"] # <<>>
           /\ m_hist[1].data["ascii_name"] # <<>>)
          => /\ m_hist[k].after.name_nonascii = m_hist[1].after.name_nonascii
             /\ m_hist[k].after.name_ascii = m_hist[1].after.name_ascii

C7_Witness ==
    /\ Len(m_hist) >= 2
    /\ m_hist[1].before.name_nonascii = None
    /\ m_hist[1].before.name_ascii = None
    /\ {"name", "ascii_name"} \subseteq DOMAIN m_hist[1].data
    /\ {"name", "ascii_name"} \subseteq DOMAIN m_hist[2].data
    /\ m_hist[2].data["name"] \notin {<<>>, m_hist[1].data["name"]}
    /\ m_hist[2].data["ascii_name"] \notin {<<>>, m_hist[1].data["ascii_name"]}
    /\ m_hist[2].after.name_nonascii = m_hist[1].data["name"]
    /\ m_hist[2].after.name_ascii = m_hist[1].data["ascii_name"]

\* the field of PlayerModel each recognised key is merged into
MergeTarget ==
    [ playerid |-> "id_fangraphs", xmlbam_id |-> "id_xmlbam", name |-> "name_nonascii",
      ascii_name |-> "name_ascii", slug |-> "slug_fangraphs",
      stats_api |-> "fangraphs_api_route" ]

---------------------------------------------------------------------------
(* Properties of filter_by_team (specification FilterSpec) *)

\* the FanGraphs code the claim gives for an ESPN code
MappedCode(code) ==
    CASE code = <<"K","C">> -> <<"K","C","R">>
      [] code = <<"S","D">> -> <<"S","D","P">>
      [] code = <<"T","B">> -> <<"T","B","R">>
      [] code = <<"S","F">> -> <<"S","F","G">>
      [] OTHER -> code

\* the candidates of the list whose team equals the mapped code, in their order
RECURSIVE WithTeam(_, _)
WithTeam(candidates, team) ==
    IF candidates = <<>> THEN <<>>
    ELSE (IF "team" \in DOMAIN Head(candidates) /\ Head(candidates)["team"] = team
          THEN <<Head(candidates)>> ELSE <<>>) \o WithTeam(Tail(candidates), team)

\* C10 as stated: for every code, filter_by_team returns the candidates whose
\* team equals the mapped code, in their order, and the method returns the same.
C10_FilterReturnsMappedTeam ==
    f_pc = "done" =>
        /\ f_result = WithTeam(f_candidates, MappedCode(f_team_code))
        /\ f_method_result = f_result

\* C10 as amended: for a non-empty code, filter_by_team returns the
\* candidates whose team equals the mapped code, in their order; for an empty
\* or None code it returns the empty list; the method returns the same.
C10_FilterByTeam ==
    f_pc = "done" =>
        /\ f_result = IF f_team_code \in {None, <<>>} THEN <<>>
                      ELSE WithTeam(f_candidates, MappedCode(f_team_code))
        /\ f_method_result = f_result

C10_Witness ==
    /\ f_pc = "done"
    /\ f_team_code = tKC
    /\ Len(f_candidates) = 2
    /\ f_candidates[1] = [team |-> tKC]
    /\ "team" \in DOMAIN f_candidates[2]
    /\ f_candidates[2]["team"] = tKCR
    /\ f_result = <<f_candidates[2]>>

---------------------------------------------------------------------------
(* Further properties of match_players (specification Spec) *)

\* the first name of a candidate that has a name field
CandidateFirstName(c) ==
    _extract_first_name(IF "ascii_name" \in DOMAIN fg_data[c]
                        THEN fg_data[c]["ascii_name"] ELSE fg_data[c]["name"])

\* candidate c has the canonical last name and the (non-empty) first name of player p
SharesName(p, c) ==
    /\ SharesLastName(p, c)
    /\ espn_players[p].first_name \notin {None, <<>>}
    /\ CandidateFirstName(c) = espn_players[p].first_name

\* the playerids claimed by the players resolved before player p
ClaimedBefore(p) ==
    { fg_data[log[i][2]]["playerid"] :
        i \in {j \in 1..Len(log) : /\ "playerid" \in DOMAIN fg_data[log[j][2]]
                                   /\ Before(log[j][1], p)} }

\* candidate c was not claimed when player p was resolved
UnclaimedFor(p, c) == get(fg_data[c], "playerid", None) \notin ClaimedBefore(p)

\* the candidates with the first and canonical last name of player p that
\* were unclaimed when p was resolved, in input order
SameNamePool(p) ==
    LET first_name == espn_players[p].first_name
        last_name == PlayerLastName(p)
        claimed == ClaimedBefore(p)
        test(c) == /\ HasName(c)
                   /\ get(fg_data[c], "playerid", None) \notin claimed
                   /\ CandidateFirstName(c) = first_name
                   /\ CandidateLastName(c) = last_name
    IN  IF first_name \in {None, <<>>} \/ last_name = <<>> THEN <<>>
        ELSE SelectSeq([c \in 1..Len(fg_data) |-> c], test)

NoTeam(p) == espn_players[p].pro_team \in {None, <<>>}

\* C11: for a player whose team code is None or empty the team filter keeps
\* no candidate, whatever list it is given; and when match_players has run,
\* such a player with two or more unclaimed candidates of its first and
\* canonical last name is in the ambiguous bucket with exactly those
\* candidates and is not in matched.
C11_NoTeamSameNameIsAmbiguous ==
    [](
        \A p \in Players :
            (pc = "done" /\ NoTeam(p)) =>
                LET pool == SameNamePool(p) IN
                /\ \A cs \in SUBSET Candidates :
                      _filter_by_team(SelectSeq([c \in 1..Len(fg_data) |-> c],
                                                LAMBDA c : c \in cs),
                                      espn_players[p].pro_team) = <<>>
                /\ Len(pool) >= 2 =>
                      /\ ~InList(p, matched_players)
                      /\ InList(<<p, pool>>, ambiguous_matches) )

C11_Witness ==
    /\ pc = "done"
    /\ \E p \in Players :
          /\ NoTeam(p)
          /\ Len(SameNamePool(p)) = 2
          /\ fg_data[SameNamePool(p)[1]] # fg_data[SameNamePool(p)[2]]
          /\ ambiguous_matches = <<<<p, SameNamePool(p)>>>>

\* candidate c is on the team of player p: its team is the mapped team code of p
OnTeamOf(p, c) ==
    /\ "team" \in DOMAIN fg_data[c]
    /\ fg_data[c]["team"] = MappedCode(espn_players[p].pro_team)

\* the input is two players with one first and canonical last name on two
\* different teams, and exactly two candidates of that name, one on each team
TwoNamesakesOnTwoTeams ==
    /\ Len(espn_players) = 2
    /\ espn_players[1].first_name = espn_players[2].first_name
    /\ PlayerLastName(1) = PlayerLastName(2)
    /\ ~NoTeam(1) /\ ~NoTeam(2)
    /\ MappedCode(espn_players[1].pro_team) # MappedCode(espn_players[2].pro_team)
    /\ Cardinality({c \in Candidates : SharesName(1, c)}) = 2
    /\ \A p \in {1, 2} : \E c \in Candidates : SharesName(1, c) /\ OnTeamOf(p, c)

\* C12: when the input is two players of one first and canonical last name
\* on two different teams and exactly two candidates of that name, one on
\* each of the teams, then after the run both players are matched, each
\* merged with the candidate of its own team, and nothing is ambiguous or
\* unmatched - in whichever order the players and the candidates are given.
C12_TeamDisambiguatesNamesakes ==
    (pc = "done" /\ TwoNamesakesOnTwoTeams) =>
        /\ ambiguous_matches = <<>>
        /\ unmatched_players = <<>>
        /\ Len(log) = 2
        /\ \A p \in {1, 2} :
              /\ InList(p, matched_players)
              /\ \E i \in 1..2 :
                    /\ log[i][1] = p
                    /\ SharesName(p, log[i][2])
                    /\ OnTeamOf(p, log[i][2])
                    /\ espn_players[p].id_fangraphs =
                          get(fg_data[log[i][2]], "playerid", espn_players[p].id_fangraphs)

\* the second player is resolved first and takes the second candidate
C12_Witness ==
    /\ pc = "done"
    /\ TwoNamesakesOnTwoTeams
    /\ Len(fg_data) = 2
    /\ \A c \in 1..2 : "playerid" \in DOMAIN fg_data[c]
    /\ log = << <<1, 2>>, <<2, 1>> >>
    /\ espn_players[1].id_fangraphs = fg_data[2]["playerid"]
    /\ espn_players[2].id_fangraphs = fg_data[1]["playerid"]

\* the value the names of a candidate are to be derived from: ascii_name when
\* the record has that key, name when it has only that one
PreferredName(c) ==
    IF "ascii_name" \in DOMAIN fg_data[c] THEN fg_data[c]["ascii_name"]
    ELSE IF "name" \in DOMAIN fg_data[c] THEN fg_data[c]["name"]
    ELSE <<>>

\* C13: a candidate is listed in the index under the last name of its
\* ascii_name when it has that key, and of its name otherwise, and under no
\* other key, before and after match_players; and when match_players has
\* run, a player for which exactly one unclaimed candidate has, in
\* ascii_name when present and in name otherwise, the player's first and
\* canonical last name is matched to that candidate, however the
\* candidate's name is spelled.
C13_AsciiPreference ==
    [](
        /\ pc # "loop" =>
              \A c \in Candidates :
                  LET last_name == _extract_last_name(PreferredName(c)) IN
                  \A key \in DOMAIN fg_by_last_name :
                      InList(c, fg_by_last_name[key]) <=> (key # <<>> /\ key = last_name)
        /\ pc = "done" =>
              \A p \in Players :
                  LET pool == SameNamePool(p) IN
                  Len(pool) = 1 => /\ InList(p, matched_players)
                                   /\ InList(<<p, pool[1]>>, log) )

\* a player matched to a candidate whose accented name has neither the
\* player's first name nor its last name
C13_Witness ==
    /\ pc = "done"
    /\ \E i \in 1..Len(log) :
          LET player == espn_players[log[i][1]]
              match == fg_data[log[i][2]]
          IN  /\ SameNamePool(log[i][1]) = <<log[i][2]>>
              /\ "ascii_name" \in DOMAIN match
              /\ _extract_first_name(match["name"]) # player.first_name
              /\ _extract_last_name(match["name"]) # PlayerLastName(log[i][1])
              /\ player.name_nonascii = match["name"]

---------------------------------------------------------------------------
(* Properties of extract_last_name (specification NameSpec) *)

\* the letters of the suffixes, each paired with its other case
CasePairs ==
    { <<"J","j">>, <<"j","J">>, <<"R","r">>, <<"r","R">>, <<"S","s">>, <<"s","S">>,
      <<"I","i">>, <<"i","I">>, <<"V","v">>, <<"v","V">> }

SameIgnoringCase(a, b) ==
    /\ Len(a) = Len(b)
    /\ \A k \in 1..Len(a) : a[k] = b[k] \/ <<a[k], b[k]>> \in CasePairs

\* Jr, Jr., Sr, Sr., II, III, IV
SuffixWords ==
    { <<"J","r">>, <<"J","r",".">>, <<"S","r">>, <<"S","r",".">>,
      <<"I","I">>, <<"I","I","I">>, <<"I","V">> }

IsSuffixToken(token) == \E word \in SuffixWords : SameIgnoringCase(token, word)

\* C14: extract_last_name returns the empty string for a name without
\* tokens (empty or whitespace only), the second-to-last token when there
\* are two or more tokens and the last one is, in any case, one of Jr, Jr.,
\* Sr, Sr., II, III, IV, and the last token otherwise - so a single token
\* is returned as it is, suffix or not.
C14_ExtractLastName ==
    n_pc = "done" =>
        n_result =
            IF n_tokens = <<>> THEN <<>>
            ELSE IF Len(n_tokens) > 1 /\ IsSuffixToken(n_tokens[Len(n_tokens)])
                 THEN n_tokens[Len(n_tokens) - 1]
                 ELSE n_tokens[Len(n_tokens)]

\* a suffix in another case, after a name written with surrounding whitespace
C14_Witness ==
    /\ n_pc = "done"
    /\ Len(n_tokens) = 2
    /\ n_tokens[2] = <<"s","R",".">>
    /\ n_full_name[1] = "\t"
    /\ Len(n_full_name) > Len(n_tokens[1]) + Len(n_tokens[2]) + 3
    /\ n_result = n_tokens[1]

---------------------------------------------------------------------------
(* Properties of match_players that rest on extract_last_name *)
(* (specification Spec)                                       *)

\* the lengths k such that s is one token of k characters, a blank and a suffix
SuffixCuts(s) ==
    { k \in 1..Len(s) :
        /\ k + 2 <= Len(s)
        /\ s[k + 1] = " "
        /\ \A j \in 1..k : s[j] # " "
        /\ IsSuffixToken(SubSeq(s, k + 2, Len(s))) }

\* s without its suffix
Stripped(s) == SubSeq(s, 1, CHOOSE k \in SuffixCuts(s) : TRUE)

\* the last_name field of player p carries a generational suffix
HasSuffix(p) ==
    /\ espn_players[p].last_name # None
    /\ SuffixCuts(espn_players[p].last_name) # {}

\* the name of a candidate without its first token and the blank after it
AfterFirstName(c) ==
    SubSeq(PreferredName(c), Len(CandidateFirstName(c)) + 2, Len(PreferredName(c)))

\* C15: for a player whose last_name field ends in a generational suffix,
\* the canonical last name is the field without the suffix and the lookup
\* returns the unclaimed candidates indexed under it; a candidate whose name
\* ends in a suffix is indexed under the token before the suffix, before and
\* after match_players; and when match_players has run, such a player with
\* exactly one unclaimed candidate of its first and canonical last name is
\* matched to that candidate.
C15_SuffixInsensitiveLookup ==
    [](
        /\ \A p \in Players :
              HasSuffix(p) =>
                  LET last_name == Stripped(espn_players[p].last_name)
                      unclaimed(c) == ~Claimed(c)
                  IN  /\ PlayerLastName(p) = last_name
                      /\ _find_candidates_by_last_name(espn_players[p])
                            = SelectSeq(get(fg_by_last_name, last_name, <<>>), unclaimed)
                      /\ pc = "done" =>
                            LET pool == SameNamePool(p) IN
                            Len(pool) = 1 => /\ InList(<<p, pool[1]>>, log)
                                             /\ Count(matched_players, p) = 1
        /\ pc # "loop" =>
              \A c \in Candidates :
                  (HasName(c) /\ SuffixCuts(AfterFirstName(c)) # {}) =>
                      InList(c, get(fg_by_last_name, Stripped(AfterFirstName(c)), <<>>)) )

\* a player and a candidate that both carry a suffix, matched
C15_Witness ==
    /\ pc = "done"
    /\ \E i \in 1..Len(log) :
          /\ HasSuffix(log[i][1])
          /\ SuffixCuts(AfterFirstName(log[i][2])) # {}
          /\ SharesLastName(log[i][1], log[i][2])
          /\ espn_players[log[i][1]].id_fangraphs = fg_data[log[i][2]]["playerid"]

---------------------------------------------------------------------------
(* Frame of match_players (specification Spec) *)

\* the fields of a PlayerModel the merge writes
MergedFields ==
    {"id_fangraphs", "id_xmlbam", "name_nonascii", "name_ascii",
     "slug_fangraphs", "fangraphs_api_route"}

\* C16: no step of the matcher changes the candidate list or one of its
\* dictionaries, or the last-name index built by the constructor; the player
\* list keeps its length and its members their places, and the only player
\* a step changes is the one it appends to matched, in the fields the merge
\* writes.
C16_InputsNotMutated ==
    [][ /\ fg_data' = fg_data
        /\ fg_by_last_name' = fg_by_last_name
        /\ fg_by_last_name = _organize_fg_data_by_last_name(fg_data)
        /\ Len(espn_players') = Len(espn_players)
        /\ \A p \in Players :
              /\ \A field \in DOMAIN espn_players[p] \ MergedFields :
                    espn_players'[p][field] = espn_players[p][field]
              /\ espn_players'[p] # espn_players[p]
                    => matched_players' = Append(matched_players, p) ]_vars

\* a finished run that resolved the second player first and merged a
\* candidate into it, the candidate still being the dictionary it was
C16_Witness ==
    /\ pc = "done"
    /\ Len(espn_players) = 2
    /\ Len(log) >= 1
    /\ log[1][1] = 2
    /\ espn_players[1].id_espn # espn_players[2].id_espn
    /\ "playerid" \in DOMAIN fg_data[log[1][2]]
    /\ espn_players[2].id_fangraphs = fg_data[log[1][2]]["playerid"]
    /\ \E k \in 1..Len(CandidatePool) : fg_data[log[1][2]] = CandidatePool[k]

---------------------------------------------------------------------------
(* Empty inputs (specification Spec) *)

\* C17: a run over an empty player list returns three empty buckets, and a
\* run over an empty candidate list returns every player in no_matches,
\* once each, and nothing in matched or multiple_matches; no player object
\* is merged into.
C17_EmptyInputs ==
    pc = "done" =>
        /\ espn_players = <<>> =>
              /\ matched_players = <<>>
              /\ ambiguous_matches = <<>>
              /\ unmatched_players = <<>>
        /\ fg_data = <<>> =>
              /\ matched_players = <<>>
              /\ ambiguous_matches = <<>>
              /\ log = <<>>
              /\ Len(unmatched_players) = Len(espn_players)
              /\ \A p \in Players : Count(unmatched_players, p) = 1

\* two players, one of them without a first name and a team, and no candidate
C17_Witness ==
    /\ pc = "done"
    /\ fg_data = <<>>
    /\ Len(espn_players) = 2
    /\ ~Truthy(espn_players[1].first_name)
    /\ Truthy(espn_players[2].first_name)
    /\ Len(unmatched_players) = 2

---------------------------------------------------------------------------
(* Properties of create_player_models (specification BuilderSpec) *)

\* the records of player_data whose status is not "retired", in input order
NotRetired ==
    LET test(record) == ~("status" \in DOMAIN record /\ record["status"] = stRetired)
    IN  SelectSeq(b_player_data, test)

\* C18: create_player_models returns one PlayerModel for each input record
\* whose status is not "retired", in input order, so as many models as
\* there are input records less the retired ones.
C18_OneModelPerNonRetiredRecord ==
    b_pc = "done" =>
        /\ Len(b_valid_players) = Len(NotRetired)
        /\ \A k \in 1..Len(NotRetired) :
              b_valid_players[k].name = str_field(get(NotRetired[k], "name", None))

---------------------------------------------------------------------------
(* The claimed set (specification Spec) *)

\* the playerids of the candidates merged so far in the run
MergedIds ==
    { fg_data[log[i][2]]["playerid"] :
        i \in {j \in 1..Len(log) : "playerid" \in DOMAIN fg_data[log[j][2]]} }

\* C19: the candidate pool of the player about to be resolved holds no
\* candidate whose playerid was merged into a player resolved before it,
\* the one resolved last included; and so no matched player was merged with,
\* and no ambiguous entry carries, a candidate whose playerid had been
\* claimed by a player resolved earlier.
C19_ClaimVisibility ==
    /\ (pc = "loop" /\ todo # <<>>) =>
          LET pool == _find_candidates_by_last_name(espn_players[Head(todo)])
              merged == MergedIds
          IN  \A k \in 1..Len(pool) :
                  "playerid" \in DOMAIN fg_data[pool[k]]
                      => fg_data[pool[k]]["playerid"] \notin merged
    /\ \A i \in 1..Len(log) : UnclaimedFor(log[i][1], log[i][2])
    /\ \A k \in 1..Len(ambiguous_matches) :
          \A j \in 1..Len(ambiguous_matches[k][2]) :
              UnclaimedFor(ambiguous_matches[k][1], ambiguous_matches[k][2][j])

\* the player resolved last claimed a candidate of the name of the next
\* player, whose pool holds another candidate of that name
C19_Witness ==
    /\ pc = "loop"
    /\ todo # <<>>
    /\ log # <<>>
    /\ LET p == Head(todo)
           last == log[Len(log)][2]
           pool == _find_candidates_by_last_name(espn_players[p])
       IN  /\ "playerid" \in DOMAIN fg_data[last]
           /\ SharesName(p, last)
           /\ ~InList(last, pool)
           /\ \E k \in 1..Len(pool) : SharesName(p, pool[k])

\* every candidate of the input has a playerid
AllHavePlayerid == \A c \in Candidates : "playerid" \in DOMAIN fg_data[c]

\* C20: the claimed set is empty when the loops of a run begin; a step of
\* the run never removes an id from it; the step that appends a player to
\* matched adds the playerid of the candidate merged into it, which was not
\* in the set, and nothing else (nothing at all when the candidate has no
\* playerid); a step that classifies the player as ambiguous or unmatched
\* leaves the set as it was; and when every candidate has a playerid the
\* set has as many ids as there are matched players.
C20_ClaimedSetDiscipline ==
    [][ /\ (pc = "constructed" /\ pc' = "loop") => matched_fg_ids' = {}
        /\ pc = "loop" =>
              /\ matched_fg_ids \subseteq matched_fg_ids'
              /\ IF matched_players' # matched_players
                 THEN LET match == fg_data[log'[Len(log')][2]] IN
                      /\ matched_players' = Append(matched_players, Head(todo))
                      /\ log'[Len(log')][1] = Head(todo)
                      /\ IF "playerid" \in DOMAIN match
                         THEN /\ match["playerid"] \notin matched_fg_ids
                              /\ matched_fg_ids' = matched_fg_ids \cup {match["playerid"]}
                         ELSE matched_fg_ids' = matched_fg_ids
                 ELSE matched_fg_ids' = matched_fg_ids
        /\ (pc' \in {"loop", "done"} /\ AllHavePlayerid)
              => Cardinality(matched_fg_ids') = Len(matched_players') ]_vars

\* a finished run with one player matched and one ambiguous, whose
\* candidates are still unclaimed
C20_Witness ==
    /\ pc = "done"
    /\ AllHavePlayerid
    /\ Len(matched_players) = 1
    /\ Len(ambiguous_matches) = 1
    /\ Cardinality(matched_fg_ids) = 1
    /\ ambiguous_matches[1][2] # <<>>
    /\ \A j \in 1..Len(ambiguous_matches[1][2]) : ~Claimed(ambiguous_matches[1][2][j])

---------------------------------------------------------------------------
(* The stages of _match_player, step by step (specification Spec) *)

\* the step about to be taken resolves a player
Resolving == pc = "loop" /\ todo # <<>>

\* the unclaimed candidates of the canonical last name of player p, in input order
StagePool(p) ==
    LET test(c) == SharesLastName(p, c) /\ ~Claimed(c)
    IN  SelectSeq([c \in 1..Len(fg_data) |-> c], test)

\* those of the list cs whose first name is the first name of player p
ExactHits(p, cs) ==
    LET test(c) == CandidateFirstName(c) = espn_players[p].first_name
    IN  SelectSeq(cs, test)

\* those of the list cs that are on the team of player p
TeamHits(p, cs) ==
    LET test(c) == ~NoTeam(p) /\ OnTeamOf(p, c)
    IN  SelectSeq(cs, test)

\* the step merges candidate c into player p, claims it and buckets p as matched
MergedAndClaimed(p, c) ==
    /\ espn_players' = [espn_players EXCEPT ![p] = merge_fangraphs_data(@, fg_data[c])]
    /\ log' = Append(log, <<p, c>>)
    /\ matched_players' = Append(matched_players, p)
    /\ "playerid" \in DOMAIN fg_data[c] =>
          matched_fg_ids' = matched_fg_ids \cup {fg_data[c]["playerid"]}
    /\ UNCHANGED <<ambiguous_matches, unmatched_players>>

\* the step buckets player p as ambiguous against the list cs and does nothing else
BucketedAmbiguous(p, cs) ==
    /\ ambiguous_matches' = Append(ambiguous_matches, <<p, cs>>)
    /\ UNCHANGED <<espn_players, log, matched_players, unmatched_players, matched_fg_ids>>

\* C21: when exactly one unclaimed candidate of the player's canonical last
\* name has the player's first name, the step that resolves the player
\* merges that candidate into it, adds the candidate's playerid to the
\* claimed set and appends the player to matched - whatever the candidate's
\* team and whether or not the player has a team code.
C21_ExactSingleHit ==
    [][ Resolving =>
          LET p == Head(todo)
              exact == ExactHits(p, StagePool(p))
          IN  Len(exact) = 1 => MergedAndClaimed(p, exact[1]) ]_vars

\* a player matched to the only candidate of its name, which is on another
\* team than the player and is claimed
C21_Witness ==
    /\ pc = "done"
    /\ Len(log) = 1
    /\ SharesName(log[1][1], log[1][2])
    /\ Cardinality({c \in Candidates : SharesName(log[1][1], c)}) = 1
    /\ ~NoTeam(log[1][1])
    /\ ~OnTeamOf(log[1][1], log[1][2])
    /\ Claimed(log[1][2])
    /\ espn_players[log[1][1]].id_fangraphs = fg_data[log[1][2]]["playerid"]

\* C22: when two or more unclaimed candidates of the player's canonical
\* last name have the player's first name, the step that resolves the
\* player merges and claims the one of them that is on the player's team
\* when there is exactly one such, and otherwise buckets the player as
\* ambiguous against all of them, and neither matches nor buckets it any
\* other way.
C22_ExactSeveralHits ==
    [][ Resolving =>
          LET p == Head(todo)
              exact == ExactHits(p, StagePool(p))
              team == TeamHits(p, exact)
          IN  Len(exact) > 1 =>
                  IF Len(team) = 1 THEN MergedAndClaimed(p, team[1])
                  ELSE BucketedAmbiguous(p, exact) ]_vars

\* two players ambiguous against the same two namesakes: both candidates
\* are on the team of the first, none is on the team of the second
C22_Witness ==
    /\ pc = "done"
    /\ Len(ambiguous_matches) = 2
    /\ Len(ambiguous_matches[1][2]) = 2
    /\ ambiguous_matches[2][2] = ambiguous_matches[1][2]
    /\ ~NoTeam(ambiguous_matches[2][1])
    /\ \A k \in 1..2 :
          /\ SharesName(ambiguous_matches[1][1], ambiguous_matches[1][2][k])
          /\ SharesName(ambiguous_matches[2][1], ambiguous_matches[1][2][k])
          /\ OnTeamOf(ambiguous_matches[1][1], ambiguous_matches[1][2][k])
          /\ ~OnTeamOf(ambiguous_matches[2][1], ambiguous_matches[1][2][k])

\* a is a string-prefix of b
IsPrefix(a, b) == Len(a) <= Len(b) /\ SubSeq(b, 1, Len(a)) = a

\* the first name of player p as a string, a missing one being the empty string
FirstNameText(p) ==
    IF espn_players[p].first_name = None THEN <<>> ELSE espn_players[p].first_name

\* those of the list cs whose first name is a prefix of the first name of
\* player p, or has it as a prefix
PrefixRelated(p, cs) ==
    LET test(c) == \/ IsPrefix(FirstNameText(p), CandidateFirstName(c))
                   \/ IsPrefix(CandidateFirstName(c), FirstNameText(p))
    IN  SelectSeq(cs, test)

\* the same, and none for a player whose first name is empty or missing
PrefixHits(p, cs) ==
    IF FirstNameText(p) = <<>> THEN <<>> ELSE PrefixRelated(p, cs)

\* the outcome of the team-only stage for player p and the list pool
TeamOnlyOutcome(p, pool) ==
    LET team == TeamHits(p, pool) IN
    IF Len(team) = 1 THEN MergedAndClaimed(p, team[1])
    ELSE IF Len(team) > 1 THEN BucketedAmbiguous(p, team)
         ELSE BucketedAmbiguous(p, pool)

\* the outcome of the prefix stage and of what follows it, for player p, the
\* list pool and the list prefix the stage keeps
PrefixOutcome(p, pool, prefix) ==
    LET team == TeamHits(p, prefix) IN
    IF Len(prefix) = 1 THEN MergedAndClaimed(p, prefix[1])
    ELSE IF Len(prefix) > 1
         THEN IF Len(team) = 1 THEN MergedAndClaimed(p, team[1])
              ELSE BucketedAmbiguous(p, prefix)
         ELSE TeamOnlyOutcome(p, pool)

\* the exact stage decides: the candidate merged is one of the list exact,
\* or the player is ambiguous against that list
ExactDecides(p, exact) ==
    \/ \E k \in 1..Len(exact) : MergedAndClaimed(p, exact[k])
    \/ BucketedAmbiguous(p, exact)

\* C23 as stated: the prefix stage keeps the candidates that are
\* prefix-related to the player's first name whatever that first name is,
\* the empty string (a prefix of every name) included.
C23_PrefixStageForEveryFirstName ==
    [][ Resolving =>
          LET p == Head(todo)
              pool == StagePool(p)
              exact == ExactHits(p, pool)
          IN  /\ exact # <<>> => ExactDecides(p, exact)
              /\ (pool # <<>> /\ exact = <<>>)
                    => PrefixOutcome(p, pool, PrefixRelated(p, pool)) ]_vars

\* C23 as amended: when the exact stage keeps a candidate the prefix stage
\* has no part in the outcome; when it keeps none and the pool is not
\* empty, the prefix stage keeps, for a player with a non-empty first name,
\* the unclaimed candidates of the player's last name whose first name is a
\* prefix of the player's or has the player's as a prefix, and none for a
\* player whose first name is empty or missing; a single kept candidate is
\* merged and claimed, of several the single one on the player's team is,
\* the player being otherwise ambiguous against all the kept ones, and
\* with none kept the outcome is that of the team-only stage.
C23_PrefixStage ==
    [][ Resolving =>
          LET p == Head(todo)
              pool == StagePool(p)
              exact == ExactHits(p, pool)
          IN  /\ exact # <<>> => ExactDecides(p, exact)
              /\ (pool # <<>> /\ exact = <<>>)
                    => PrefixOutcome(p, pool, PrefixHits(p, pool)) ]_vars

\* a player matched to a candidate whose first name is a proper prefix of
\* its own, and a player without a first name left ambiguous against the
\* only candidate of its last name
C23_Witness ==
    /\ pc = "done"
    /\ Len(log) = 1
    /\ Len(ambiguous_matches) = 1
    /\ LET p == log[1][1]
           c == log[1][2]
           q == ambiguous_matches[1][1]
       IN  /\ CandidateFirstName(c) # espn_players[p].first_name
           /\ IsPrefix(CandidateFirstName(c), espn_players[p].first_name)
           /\ FirstNameText(q) = <<>>
           /\ Len(ambiguous_matches[1][2]) = 1
           /\ SharesLastName(q, ambiguous_matches[1][2][1])

\* C24: when the pool of a player is not empty and neither first-name stage
\* keeps a candidate of it, the step that resolves the player merges and
\* claims the one candidate of the pool on the player's team when there is
\* exactly one, buckets the player as ambiguous against the candidates on
\* its team when there are several, and as ambiguous against the whole pool
\* when there is none, also when the pool holds a single candidate; the
\* player is not put in unmatched.
C24_TeamOnlyStage ==
    [][ Resolving =>
          LET p == Head(todo)
              pool == StagePool(p)
          IN  (pool # <<>> /\ ExactHits(p, pool) = <<>> /\ PrefixHits(p, pool) = <<>>)
                  => /\ TeamOnlyOutcome(p, pool)
                     /\ unmatched_players' = unmatched_players ]_vars

\* a player matched by its team alone to a candidate of another first name,
\* and a player ambiguous against the single candidate of its last name
C24_Witness ==
    /\ pc = "done"
    /\ Len(log) = 1
    /\ Len(ambiguous_matches) = 1
    /\ unmatched_players = <<>>
    /\ LET p == log[1][1]
           c == log[1][2]
           q == ambiguous_matches[1][1]
       IN  /\ PrefixRelated(p, <<c>>) = <<>>
           /\ OnTeamOf(p, c)
           /\ ambiguous_matches[1][2] = StagePool(q)
           /\ Len(StagePool(q)) = 1
           /\ TeamHits(q, StagePool(q)) = <<>>

---------------------------------------------------------------------------
(* The last-name index (specification Spec) *)

\* the name of candidate c that can be used: its ascii_name when that is
\* not empty, else its name when that is not empty, else none
UsableName(c) ==
    IF "ascii_name" \in DOMAIN fg_data[c] /\ fg_data[c]["ascii_name"] # <<>>
    THEN fg_data[c]["ascii_name"]
    ELSE IF "name" \in DOMAIN fg_data[c] /\ fg_data[c]["name"] # <<>>
         THEN fg_data[c]["name"]
         ELSE <<>>

\* the number of places of the index that hold candidate c
IndexPlaces(c) ==
    Cardinality({ <<key, k>> \in (DOMAIN fg_by_last_name) \X (1..Len(fg_data)) :
                    k <= Len(fg_by_last_name[key]) /\ fg_by_last_name[key][k] = c })

\* C25: every candidate with a non-empty name or ascii_name is in the index
\* exactly once, in the bucket of the last name derived from it; a
\* candidate with neither is in no bucket; and every bucket lists its
\* candidates in input order.
C25_IndexHoldsEveryNamedRecord ==
    /\ \A c \in Candidates :
          IF UsableName(c) # <<>>
          THEN /\ IndexPlaces(c) = 1
               /\ InList(c, get(fg_by_last_name, _extract_last_name(UsableName(c)), <<>>))
          ELSE IndexPlaces(c) = 0
    /\ \A key \in DOMAIN fg_by_last_name :
          \A i, j \in 1..Len(fg_by_last_name[key]) :
              i < j => fg_by_last_name[key][i] < fg_by_last_name[key][j]

---------------------------------------------------------------------------
(* The effect of a run on the players (specification Spec) *)

\* the player at position p as it was handed to the matcher: the players
\* of the model differ in id_espn, which no step changes
Original(p) == PlayerPool[espn_players[p].id_espn]

\* the candidates merge_fangraphs_data was called with for player p, in order
MergeCalls(p) ==
    LET ofPlayer(entry) == entry[1] = p
    IN  SelectSeq(log, ofPlayer)

\* C26: at every point of a run merge_fangraphs_data has been called once
\* for each player in matched, the player holding the result of that one
\* call on the object handed in, and not at all for any other player,
\* whose six external fields are those of the object handed in; so at the
\* end the ambiguous and the unmatched players are as they were.
C26_MergeOncePerMatchedPlayer ==
    [](
        \A p \in Players :
            /\ Len(MergeCalls(p)) = Count(matched_players, p)
            /\ Len(MergeCalls(p)) <= 1
            /\ IF MergeCalls(p) = <<>>
               THEN \A field \in MergedFields : espn_players[p][field] = Original(p)[field]
               ELSE espn_players[p] = merge_fangraphs_data(Original(p), fg_data[MergeCalls(p)[1][2]])
            /\ (pc = "done" /\ ~InList(p, matched_players)) =>
                  /\ MergeCalls(p) = <<>>
                  /\ \/ InList(p, unmatched_players)
                     \/ \E k \in 1..Len(ambiguous_matches) : ambiguous_matches[k][1] = p )

\* a finished run with a player merged with a candidate and a player left
\* unmatched that still carries the external ids it came with
C26_Witness ==
    /\ pc = "done"
    /\ Len(matched_players) = 1
    /\ Len(unmatched_players) = 1
    /\ espn_players[matched_players[1]] # Original(matched_players[1])
    /\ espn_players[unmatched_players[1]].id_fangraphs # None
    /\ espn_players[unmatched_players[1]] = Original(unmatched_players[1])
    /\ \E c \in Candidates : SharesLastName(unmatched_players[1], c)

---------------------------------------------------------------------------
(* The buckets at the end of a run (specification Spec) *)

\* the candidates of the canonical last name of player p that no player
\* resolved before p had claimed, in input order: the pool p was resolved with
PoolAt(p) ==
    LET claimed == ClaimedBefore(p)
        test(c) == /\ SharesLastName(p, c)
                   /\ get(fg_data[c], "playerid", None) \notin claimed
    IN  SelectSeq([c \in 1..Len(fg_data) |-> c], test)

\* C27: when match_players has run, every entry of the ambiguous bucket
\* has a non-empty candidate list; its candidates have the canonical last
\* name of the entry's player and had not been claimed when the player was
\* resolved; and the list is the exact-first-name subset of the player's
\* pool, or its prefix subset, or its team-filtered subset with two or
\* more candidates, or the whole pool.
C27_AmbiguousEntries ==
    [](
        pc = "done" =>
            \A k \in 1..Len(ambiguous_matches) :
                LET p == ambiguous_matches[k][1]
                    cs == ambiguous_matches[k][2]
                    pool == PoolAt(p)
                IN  /\ cs # <<>>
                    /\ \A j \in 1..Len(cs) : InList(cs[j], pool)
                    /\ \/ cs = ExactHits(p, pool)
                       \/ cs = PrefixHits(p, pool)
                       \/ cs = TeamHits(p, pool) /\ Len(cs) >= 2
                       \/ cs = pool )

\* two entries: a player against the two candidates of its first name, and
\* a player of another first name against the same two, both on its team
C27_Witness ==
    /\ pc = "done"
    /\ Len(ambiguous_matches) = 2
    /\ LET p == ambiguous_matches[1][1]
           q == ambiguous_matches[2][1]
       IN  /\ Len(ambiguous_matches[1][2]) = 2
           /\ ambiguous_matches[1][2] = ExactHits(p, PoolAt(p))
           /\ PrefixRelated(q, PoolAt(q)) = <<>>
           /\ ambiguous_matches[2][2] = TeamHits(q, PoolAt(q))
           /\ Len(ambiguous_matches[2][2]) = 2

\* C28: when match_players has run, every candidate merged into a player
\* has the player's canonical last name and had not been claimed when the
\* player was resolved, and either its first name and the player's
\* (non-empty) first name are equal or one a prefix of the other, or it is
\* on the team the player's team code maps to.
C28_MatchSoundness ==
    [](
        pc = "done" =>
            /\ Len(log) = Len(matched_players)
            /\ \A i \in 1..Len(log) :
                  LET p == log[i][1]
                      c == log[i][2]
                  IN  /\ matched_players[i] = p
                      /\ InList(c, PoolAt(p))
                      /\ PrefixHits(p, <<c>>) # <<>> \/ TeamHits(p, <<c>>) # <<>> )

\* a player matched to a candidate of an unrelated first name that is on its team
C28_Witness ==
    /\ pc = "done"
    /\ Len(log) = 1
    /\ Len(PoolAt(log[1][1])) = 2
    /\ PrefixRelated(log[1][1], <<log[1][2]>>) = <<>>
    /\ TeamHits(log[1][1], PoolAt(log[1][1])) = <<log[1][2]>>
    /\ "playerid" \in DOMAIN fg_data[log[1][2]]
    /\ espn_players[log[1][1]].id_fangraphs = fg_data[log[1][2]]["playerid"]

---------------------------------------------------------------------------
(* Two namesakes and one candidate (specification Spec) *)

\* players p and q have one first name and one canonical last name, and
\* different team codes
NamesakesOnDifferentTeams(p, q) ==
    /\ p # q
    /\ Truthy(espn_players[p].first_name)
    /\ espn_players[p].first_name = espn_players[q].first_name
    /\ PlayerLastName(p) # <<>>
    /\ PlayerLastName(p) = PlayerLastName(q)
    /\ espn_players[p].pro_team # espn_players[q].pro_team

\* c is the only candidate of the input with the first and last name of p
OnlyNamesake(p, c) == {d \in Candidates : SharesName(p, d)} = {c}

\* c is on the team of player p
Agrees(p, c) == TeamHits(p, <<c>>) # <<>>

\* C29 as stated: of two namesakes on different teams, the one whose team
\* the only candidate of their name agrees with is merged with it when
\* match_players has run, whichever of the two was resolved first.
C29_FirstPickFollowsTeam ==
    pc = "done" =>
        \A p, q \in Players : \A c \in Candidates :
            (NamesakesOnDifferentTeams(p, q) /\ OnlyNamesake(p, c) /\ Agrees(p, c))
                => InList(<<p, c>>, log)

\* C29 as amended: of two namesakes on different teams, the one resolved
\* first is merged with the only candidate of their name, when no player
\* resolved earlier has claimed it, whether the candidate's team agrees
\* with its team or with the other's; the player whose team the candidate
\* agrees with is merged with it when it is the first of the two.
C29_FirstPickFollowsOrder ==
    [](
        pc = "done" =>
            \A p, q \in Players : \A c \in Candidates :
                ( /\ NamesakesOnDifferentTeams(p, q)
                  /\ OnlyNamesake(p, c)
                  /\ Agrees(p, c) \/ Agrees(q, c)
                  /\ Before(p, q)
                  /\ InList(c, PoolAt(p)) )
                    => InList(<<p, c>>, log) )

\* the candidate agrees with the team of the second of two namesakes and
\* is merged into the first, the second being left unmatched
C29_Witness ==
    /\ pc = "done"
    /\ \E p, q \in Players : \E c \in Candidates :
          /\ NamesakesOnDifferentTeams(p, q)
          /\ OnlyNamesake(p, c)
          /\ Agrees(q, c)
          /\ ~Agrees(p, c)
          /\ Before(p, q)
          /\ log = <<<<p, c>>>>
          /\ unmatched_players = <<q>>

---------------------------------------------------------------------------
(* match_players called again (specification RerunSpec) *)

\* C30: a further call of match_players starts from empty buckets and an
\* empty claimed set, and when it returns the three buckets, the candidate
\* merged into each matched player, the claimed set and every field of
\* every player are what the first call left.
C30_RerunIdempotence ==
    [][ /\ (pc = "done" /\ pc' = "loop") =>
              /\ matched_players' = <<>>
              /\ ambiguous_matches' = <<>>
              /\ unmatched_players' = <<>>
              /\ matched_fg_ids' = {}
        /\ (pc' = "done" /\ r_reruns' >= 1) =>
              /\ matched_players' = r_first'.matched
              /\ ambiguous_matches' = r_first'.ambiguous
              /\ unmatched_players' = r_first'.unmatched
              /\ log' = r_first'.log
              /\ matched_fg_ids' = r_first'.claimed
              /\ espn_players' = r_first'.players ]_vars

\* a second call has returned on a matcher whose first call merged a
\* candidate into a player that came with other external ids, claimed it,
\* and left another player ambiguous
C30_Witness ==
    /\ pc = "done"
    /\ r_reruns = 1
    /\ Len(matched_players) = 1
    /\ Len(ambiguous_matches) = 1
    /\ matched_fg_ids # {}
    /\ Original(matched_players[1]).id_fangraphs # None
    /\ espn_players[matched_players[1]].id_fangraphs \in matched_fg_ids
    /\ r_first.players = espn_players

=============================================================================
